---- MODULE Spec2Model ----
(***************************************************************************)
(* ContestHub server (src/unnamed/part_000, the latest snapshot).          *)
(*                                                                         *)
(* The state is the two MongoDB collections (users, contests) and the      *)
(* request handlers that are between two store operations.  A handler is   *)
(* an async function: the code between two awaits runs without             *)
(* interruption, and every awaited store operation takes effect at one     *)
(* instant.  Each action below is therefore one store operation together   *)
(* with the handler code that follows it up to the next store operation    *)
(* (or up to the response).  The middlewares verifyJWT / verifyCreator run *)
(* synchronously before the handler's first store operation and belong to  *)
(* the handler's first action.  `out` is the request answered last with    *)
(* its response; `nreq` is the number of requests the clients still send.  *)
(*                                                                         *)
(* Two older snapshots are modelled where they differ from the latest one: *)
(* the allow-list of PUT /contests/:id in src/unnamed/part_001 and the      *)
(* POST /contests of the first snapshot in src/index.js; each has its own  *)
(* specification.                                                          *)
(*                                                                         *)
(* Not modelled: timestamps (createdAt, submittedAt, endDate), the value   *)
(* of a password hash (only its presence), the name and bio of a user,     *)
(* malformed ObjectIds, the Stripe and Firebase integrations.              *)
(***************************************************************************)
EXTENDS Integers, Sequences, FiniteSets, TLC

(* ------------------------------ bounds -------------------------------- *)

\* contest ids ever generated by insertOne (ObjectIds are never reused)
MaxContests == 3
\* requests the clients send in one behaviour of the lifecycle and of the quota
MaxRequests == 3
\* requests the clients send in one behaviour of the entries (registration,
\* submission, winner)
MaxEntryRequests == 5
\* requests the clients send in one behaviour of the moderation
MaxStatusRequests == 3
\* requests the clients send in one behaviour of the accounts
MaxAuthRequests == 3
\* user documents in the store
MaxUsers == 5
\* requests the clients send in one behaviour of the role gates
MaxGateRequests == 3
\* requests the clients send in one behaviour of the connection
MaxConnectRequests == 3
\* requests the clients send in one behaviour of the submissions listing
MaxListRequests == 3
\* requests the clients send in one behaviour of the leaderboard
MaxBoardRequests == 1
\* handlers that may be between two store operations at the same time
MaxInflight == 2
\* submissions stored in one contest
MaxSubs == 2

(* ----------------------------- constants ------------------------------ *)

\* `user.contestLimit || 2` and the contestLimit written by /auth/register
DefaultLimit == 2

\* a missing (undefined) numeric field; `||` treats undefined and 0 alike
Falsy == 0

Users == {"u1", "u2"}
Creators == {"c1", "c2"}
Admins == {"a1"}
Emails == Users \cup Creators

ContestIds == 1..MaxContests
Slots == 1..MaxInflight

defaultPackages ==
  { [id |-> "starter", limit |-> 2],
    [id |-> "pro", limit |-> 10],
    [id |-> "ultimate", limit |-> 100] }

\* package ids a client may send: the three of the catalogue and an unknown one
PackageIds == {"starter", "pro", "ultimate", "gold"}

(* ------------------------------ state --------------------------------- *)

VARIABLES
  users,      \* usersCollection: the user documents in insertion order (the
              \* position of a document is its _id); no index makes the
              \* email unique
  contests,   \* contestsCollection: _id -> contest document
  nextId,     \* the next _id insertOne generates
  reqs,       \* slot -> the handler waiting there for a store operation
  out,        \* the request answered last, with its response
  nreq,       \* number of requests the clients may still send
  db          \* the connection: whether usersCollection and contestsCollection
              \* are set, how many times client.connect() was called, and the
              \* position of the pre-connect made when the module is loaded

vars == <<users, contests, nextId, reqs, out, nreq, db>>

(* ------------------------------ helpers ------------------------------- *)

Range(s) == {s[i] : i \in 1..Len(s)}

\* Array.prototype.includes
Includes(s, x) == x \in Range(s)

\* a submission as SubmitTask stores it (no status field until a winner is
\* declared; the absent field is the value "none")
Submission(email, payload) ==
  [userEmail |-> email, submission |-> payload, status |-> "none"]

\* contest.submissions?.some(s => s.status === "winner")
HasWinner(subs) == \E i \in 1..Len(subs) : subs[i].status = "winner"

\* (contest.submissions || []).map(s => s.userEmail === userEmail
\*                                       ? {...s, status: "winner"} : s)
MarkWinner(subs, email) ==
  [i \in 1..Len(subs) |->
     IF subs[i].userEmail = email
       THEN [subs[i] EXCEPT !.status = "winner"]
       ELSE subs[i]]

\* contestsCollection.countDocuments({ creatorEmail })
CountOwned(cs, email) ==
  Cardinality({i \in DOMAIN cs : cs[i].creatorEmail = email})

\* user.contestLimit || 2
EffectiveLimit(u) == IF u.contestLimit = Falsy THEN DefaultLimit ELSE u.contestLimit

Resp(st, msg) == [status |-> st, message |-> msg]
NoResp == Resp(0, "")

\* String.prototype.toLowerCase on the emails the clients send
toLowerCase(e) == IF e = "A@x.com" THEN "a@x.com" ELSE e

\* the positions of the user documents with this email
UsersWith(email) == {i \in DOMAIN users : users[i].email = email}

\* usersCollection.findOne({email}): the first document with this email, as
\* a sequence of length one, or the empty sequence (null)
findUser(email) ==
  IF UsersWith(email) = {} THEN <<>>
  ELSE <<users[CHOOSE i \in UsersWith(email) : \A j \in UsersWith(email) : i <= j]>>

\* the document of a registered email
Account(email) == findUser(email)[1]

\* the credential carried by a request: the decoded token, or none
NoToken == [email |-> "", role |-> ""]

\* mutant of createToken: the credential always carries the role "user"
createTokenAsUser(user) == [email |-> toLowerCase(user.email), role |-> "user"]

\* jwt.sign({email: user.email.toLowerCase(), role: user.role}, ...)
createToken(user) == [email |-> toLowerCase(user.email), role |-> user.role]

NoSnap == <<>>

\* the connection when the module is loaded in production: the collections
\* are unset and client.connect() has not been called
NoDB == [collections |-> FALSE, connects |-> 0, startup |-> "none"]

\* the connection after one client.connect() has set the collections
Connected == [collections |-> TRUE, connects |-> 1, startup |-> "none"]

Idle ==
  [op |-> "", pc |-> "idle", user |-> NoToken, id |-> 0,
   arg |-> "", snap |-> NoSnap, resp |-> NoResp]

\* nothing answered yet
NoOut == [op |-> "", email |-> "", id |-> 0, resp |-> NoResp]

Free(s) == reqs[s].pc = "idle"

\* a new request is taken by the first free slot; ensureDB finds the
\* collections set and calls next()
CanStart(s) ==
  /\ Free(s)
  /\ \A t \in Slots : t < s => ~Free(t)
  /\ nreq > 0
  /\ db.collections

\* the handler in slot s answers and ends; no handler touches the connection
Done(s, op, tok, id, arg, snap, resp) ==
  /\ reqs' = [reqs EXCEPT ![s] = Idle]
  /\ out' = [op |-> op, email |-> tok.email, id |-> id, resp |-> resp]
  /\ db' = db

\* the handler in slot s has issued its next store operation
Await(s, op, pc, tok, id, arg, snap) ==
  /\ reqs' = [reqs EXCEPT ![s] = [op |-> op, pc |-> pc, user |-> tok, id |-> id,
                                 arg |-> arg, snap |-> snap, resp |-> NoResp]]
  /\ out' = out
  /\ db' = db

(* ------------------------------- Init --------------------------------- *)

\* the document /auth/register inserts
NewUser(email, role) ==
  [email |-> toLowerCase(email), role |-> role, contestLimit |-> DefaultLimit,
   currentPackage |-> "", photoURL |-> "", password |-> "hash"]

\* the accounts registered before the requests of a behaviour, each with the
\* role it registered with
Accounts(order) ==
  [i \in DOMAIN order |->
     NewUser(order[i], IF order[i] \in Admins THEN "admin"
                       ELSE IF order[i] \in Creators THEN "creator" ELSE "user")]

Init ==
  /\ users = Accounts(<<"u1", "u2", "c1", "c2">>)
  /\ contests = <<>>
  /\ nextId = 1
  /\ reqs = [s \in Slots |-> Idle]
  /\ out = NoOut
  /\ nreq = MaxRequests
  /\ db = Connected

\* credentials a client can present: one per registered user, or none
Tokens == {createToken(users[i]) : i \in DOMAIN users}

(* --------------------------- access control --------------------------- *)

\* verifyJWT: no Authorization header, or a token that does not verify
Unauthorized == Resp(401, "Unauthorized")

\* verifyCreator
CreatorOnly == Resp(403, "Creator only")

\* the response of the middlewares in front of a handler, NoResp when the
\* request reaches the handler
Gate(tok, needCreator) ==
  IF tok = NoToken THEN Unauthorized
  ELSE IF needCreator /\ tok.role # "creator" THEN CreatorOnly
  ELSE NoResp

\* verifyAdmin
AdminOnly == Resp(403, "Admin only")

\* the response of verifyJWT and verifyAdmin in front of a handler, NoResp
\* when the request reaches the handler
GateAdmin(tok) ==
  IF tok = NoToken THEN Unauthorized
  ELSE IF tok.role # "admin" THEN AdminOnly
  ELSE NoResp

(* ---------------------- POST /contests/:id/register -------------------- *)

NotFound == Resp(404, "Contest not found")
AlreadyRegistered == Resp(400, "Already registered")
Registered == Resp(200, "Registered successfully")

\* mutant of IsRegistered: the duplicate check is left out
IsRegisteredNever(participants, email) == FALSE

\* participants.includes(userEmail)
IsRegistered(participants, email) == Includes(participants, email)

\* mutant of WrittenParticipants: the caller is pushed onto the stored list
WrittenParticipantsPush(stored, read, email) == Append(stored, email)

\* {$set: {participants: [...participants, userEmail]}}: the whole list is
\* replaced by the list the handler read, extended by the caller
WrittenParticipants(stored, read, email) == Append(read, email)

\* verifyJWT, findOne, the two early returns; snap is the list to be written
RegisterRead(s, tok, id) ==
  /\ CanStart(s)
  /\ nreq' = nreq - 1
  /\ UNCHANGED <<users, contests, nextId>>
  /\ IF Gate(tok, FALSE) # NoResp
         THEN Done(s, "Register", tok, id, "", NoSnap, Gate(tok, FALSE))
       ELSE IF id \notin DOMAIN contests
         THEN Done(s, "Register", tok, id, "", NoSnap, NotFound)
       ELSE IF IsRegistered(contests[id].participants, tok.email)
         THEN Done(s, "Register", tok, id, "",
                   contests[id].participants, AlreadyRegistered)
       ELSE Await(s, "Register", "write", tok, id, "",
                  contests[id].participants)

\* updateOne({_id}, {$set: {participants: [...participants, userEmail]}})
RegisterWrite(s) ==
  /\ reqs[s].op = "Register" /\ reqs[s].pc = "write"
  /\ LET r == reqs[s] IN
       /\ contests' =
            IF r.id \in DOMAIN contests
              THEN [contests EXCEPT ![r.id].participants =
                      WrittenParticipants(@, r.snap, r.user.email)]
              ELSE contests
       /\ Done(s, r.op, r.user, r.id, r.arg, r.snap, Registered)
  /\ UNCHANGED <<users, nextId, nreq>>

(* --------------------- POST /contests/:id/submit-task ------------------ *)

EmptySubmission == Resp(400, "Submission cannot be empty")
NotRegistered == Resp(400, "You are not registered for this contest")
Submitted == Resp(200, "Submission successful")

\* mutant of NotParticipant: the participant check is left out
NotParticipantNever(participants, email) == FALSE

\* !contest.participants?.includes(userEmail)
NotParticipant(participants, email) == ~Includes(participants, email)

\* payloads a client may send: an empty one and a valid one
Payloads == {"", "work"}

\* verifyJWT, the empty-payload check, findOne, the two early returns
SubmitRead(s, tok, id, payload) ==
  /\ CanStart(s)
  /\ nreq' = nreq - 1
  /\ UNCHANGED <<users, contests, nextId>>
  /\ IF Gate(tok, FALSE) # NoResp
         THEN Done(s, "SubmitTask", tok, id, payload, NoSnap, Gate(tok, FALSE))
       ELSE IF payload = ""
         THEN Done(s, "SubmitTask", tok, id, payload, NoSnap, EmptySubmission)
       ELSE IF id \notin DOMAIN contests
         THEN Done(s, "SubmitTask", tok, id, payload, NoSnap, NotFound)
       ELSE IF NotParticipant(contests[id].participants, tok.email)
         THEN Done(s, "SubmitTask", tok, id, payload,
                   contests[id].participants, NotRegistered)
       ELSE Await(s, "SubmitTask", "push", tok, id, payload,
                  contests[id].participants)

\* updateOne({_id}, {$push: {submissions: submissionObj}})
SubmitPush(s) ==
  /\ reqs[s].op = "SubmitTask" /\ reqs[s].pc = "push"
  /\ LET r == reqs[s] IN
       /\ r.id \in DOMAIN contests => Len(contests[r.id].submissions) < MaxSubs
       /\ contests' =
            IF r.id \in DOMAIN contests
              THEN [contests EXCEPT ![r.id].submissions =
                      Append(@, Submission(r.user.email, r.arg))]
              ELSE contests
       /\ Done(s, r.op, r.user, r.id, r.arg, r.snap, Submitted)
  /\ UNCHANGED <<users, nextId, nreq>>

(* ------------------ PUT /contests/:id/declare-winner ------------------- *)

AlreadyDeclared == Resp(400, "Winner already declared")
Declared == Resp(200, "Winner declared successfully")

\* verifyJWT, verifyCreator, findOne, the two early returns; snap is the
\* submissions read
DeclareRead(s, tok, id, email) ==
  /\ CanStart(s)
  /\ nreq' = nreq - 1
  /\ UNCHANGED <<users, contests, nextId>>
  /\ IF Gate(tok, TRUE) # NoResp
         THEN Done(s, "DeclareWinner", tok, id, email, NoSnap, Gate(tok, TRUE))
       ELSE IF id \notin DOMAIN contests
         THEN Done(s, "DeclareWinner", tok, id, email, NoSnap, NotFound)
       ELSE IF HasWinner(contests[id].submissions)
         THEN Done(s, "DeclareWinner", tok, id, email,
                   contests[id].submissions, AlreadyDeclared)
       ELSE Await(s, "DeclareWinner", "write", tok, id, email,
                  contests[id].submissions)

\* updateOne({_id}, {$set: {submissions: updatedSubmissions}})
DeclareWrite(s) ==
  /\ reqs[s].op = "DeclareWinner" /\ reqs[s].pc = "write"
  /\ LET r == reqs[s] IN
       /\ contests' =
            IF r.id \in DOMAIN contests
              THEN [contests EXCEPT ![r.id].submissions = MarkWinner(r.snap, r.arg)]
              ELSE contests
       /\ Done(s, r.op, r.user, r.id, r.arg, r.snap, Declared)
  /\ UNCHANGED <<users, nextId, nreq>>

(* --------------------------- POST /contests ---------------------------- *)

LimitReached == Resp(403, "Contest limit reached")
Created == Resp(201, "insertedId")
ServerError == Resp(500, "error")

\* mutant of OverLimit: the comparison is strict
OverLimitStrict(count, limit) == count > limit

\* count >= limit
OverLimit(count, limit) == count >= limit

\* request bodies a client may send to the routes that take a document
Bodies ==
  { [title |-> "t1"],
    [title |-> "t2", status |-> "confirmed"],
    [participants |-> <<"u1", "u1">>],
    [submissions |-> <<[userEmail |-> "u1", submission |-> "work", status |-> "winner"],
                       [userEmail |-> "u2", submission |-> "work", status |-> "winner"]>>],
    [creatorEmail |-> "c2"] }

\* req.body[field], "" when the body has no such field
Field(body, f, default) == IF f \in DOMAIN body THEN body[f] ELSE default

\* mutant of NewContest: the body is spread after the fixed fields
NewContestBodyLast(body, email) ==
  [title |-> Field(body, "title", ""),
   creatorEmail |-> Field(body, "creatorEmail", email),
   status |-> Field(body, "status", "pending"),
   participants |-> Field(body, "participants", <<>>),
   submissions |-> Field(body, "submissions", <<>>)]

\* { ...req.body, creatorEmail, status: "pending", participants: [],
\*   submissions: [], createdAt, endDate }: the fixed fields come after the
\* spread body and replace what the body supplies
NewContest(body, email) ==
  [title |-> Field(body, "title", ""),
   creatorEmail |-> email,
   status |-> "pending",
   participants |-> <<>>,
   submissions |-> <<>>]

\* verifyJWT, verifyCreator, usersCollection.findOne({email}); snap is the
\* user document read
CreateFindUser(s, tok, body) ==
  /\ CanStart(s)
  /\ nreq' = nreq - 1
  /\ UNCHANGED <<users, contests, nextId>>
  /\ IF Gate(tok, TRUE) # NoResp
         THEN Done(s, "CreateContest", tok, 0, body, NoSnap, Gate(tok, TRUE))
       ELSE Await(s, "CreateContest", "count", tok, 0, body, findUser(tok.email))

\* countDocuments({creatorEmail}), `user.contestLimit || 2`, the limit check
CreateCount(s) ==
  /\ reqs[s].op = "CreateContest" /\ reqs[s].pc = "count"
  /\ UNCHANGED <<users, contests, nextId, nreq>>
  /\ LET r == reqs[s] IN
         IF r.snap = <<>>
           THEN Done(s, r.op, r.user, r.id, r.arg, r.snap, ServerError)
         ELSE IF OverLimit(CountOwned(contests, r.user.email), EffectiveLimit(r.snap[1]))
           THEN Done(s, r.op, r.user, r.id, r.arg, r.snap, LimitReached)
         ELSE Await(s, r.op, "insert", r.user, r.id, r.arg, r.snap)

\* insertOne(contest)
CreateInsert(s) ==
  /\ reqs[s].op = "CreateContest" /\ reqs[s].pc = "insert"
  /\ nextId <= MaxContests
  /\ LET r == reqs[s] IN
       /\ contests' = [i \in DOMAIN contests \cup {nextId} |->
                         IF i = nextId THEN NewContest(r.arg, r.user.email)
                                       ELSE contests[i]]
       /\ Done(s, r.op, r.user, nextId, r.arg, r.snap, Created)
  /\ nextId' = nextId + 1
  /\ UNCHANGED <<users, nreq>>

(* ------------------------ PUT /contests/edit/:id ----------------------- *)

NotAllowed == Resp(403, "Not allowed")
Updated == Resp(200, "Contest updated successfully")

\* updateOne's {$set: fields}: every field of `fields` replaces the document's
\* or is added to the document
SetFields(doc, fields) ==
  [f \in DOMAIN doc \cup DOMAIN fields |->
     IF f \in DOMAIN fields THEN fields[f] ELSE doc[f]]

\* mutant of EditRefused: the status is not looked at
EditRefusedOwnerOnly(doc, tok) == doc.creatorEmail # tok.email

\* contest.creatorEmail !== req.user.email || contest.status !== "pending"
EditRefused(doc, tok) == doc.creatorEmail # tok.email \/ doc.status # "pending"

\* verifyJWT, verifyCreator, findOne, the owner-and-pending check
EditRead(s, tok, id, body) ==
  /\ CanStart(s)
  /\ nreq' = nreq - 1
  /\ UNCHANGED <<users, contests, nextId>>
  /\ IF Gate(tok, TRUE) # NoResp
         THEN Done(s, "EditContest", tok, id, body, NoSnap, Gate(tok, TRUE))
       ELSE IF id \notin DOMAIN contests
         THEN Done(s, "EditContest", tok, id, body, NoSnap, NotFound)
       ELSE IF EditRefused(contests[id], tok)
         THEN Done(s, "EditContest", tok, id, body, NoSnap, NotAllowed)
       ELSE Await(s, "EditContest", "write", tok, id, body, NoSnap)

\* updateOne({_id}, {$set: req.body})
EditWrite(s) ==
  /\ reqs[s].op = "EditContest" /\ reqs[s].pc = "write"
  /\ LET r == reqs[s] IN
       /\ contests' =
            IF r.id \in DOMAIN contests
              THEN [contests EXCEPT ![r.id] = SetFields(@, r.arg)]
              ELSE contests
       /\ Done(s, r.op, r.user, r.id, r.arg, r.snap, Updated)
  /\ UNCHANGED <<users, nextId, nreq>>

(* -------------------------- PUT /contests/:id -------------------------- *)

NotAuthorized == Resp(403, "Not authorized")

allowedFields ==
  {"title", "description", "image", "price", "prizeMoney", "taskInstruction",
   "category", "endDate", "isActive"}

\* allowedFields of the snapshot part_001: "category " ends with a space
allowedFieldsPart001 ==
  {"title", "description", "image", "price", "prizeMoney", "taskInstruction",
   "category ", "endDate", "isActive"}

\* allowedFields.forEach(f => { if (req.body[f] !== undefined) updateFields[f] = req.body[f] })
updateFields(body) == [f \in DOMAIN body \cap allowedFields |-> body[f]]

\* the same loop over the list of part_001
updateFieldsPart001(body) == [f \in DOMAIN body \cap allowedFieldsPart001 |-> body[f]]

\* verifyJWT, verifyCreator, findOne, the owner check
UpdateRead(s, tok, id, body) ==
  /\ CanStart(s)
  /\ nreq' = nreq - 1
  /\ UNCHANGED <<users, contests, nextId>>
  /\ IF Gate(tok, TRUE) # NoResp
         THEN Done(s, "UpdateContestFields", tok, id, body, NoSnap, Gate(tok, TRUE))
       ELSE IF id \notin DOMAIN contests
         THEN Done(s, "UpdateContestFields", tok, id, body, NoSnap, NotFound)
       ELSE IF contests[id].creatorEmail # tok.email
         THEN Done(s, "UpdateContestFields", tok, id, body, NoSnap, NotAuthorized)
       ELSE Await(s, "UpdateContestFields", "write", tok, id, body, NoSnap)

\* findOneAndUpdate({_id}, {$set: updateFields})
UpdateWrite(s) ==
  /\ reqs[s].op = "UpdateContestFields" /\ reqs[s].pc = "write"
  /\ LET r == reqs[s] IN
       /\ contests' =
            IF r.id \in DOMAIN contests
              THEN [contests EXCEPT ![r.id] = SetFields(@, updateFields(r.arg))]
              ELSE contests
       /\ Done(s, r.op, r.user, r.id, r.arg, r.snap, Updated)
  /\ UNCHANGED <<users, nextId, nreq>>

\* findOneAndUpdate({_id}, {$set: updateFields}) of the snapshot part_001
UpdateWritePart001(s) ==
  /\ reqs[s].op = "UpdateContestFields" /\ reqs[s].pc = "write"
  /\ LET r == reqs[s] IN
       /\ contests' =
            IF r.id \in DOMAIN contests
              THEN [contests EXCEPT ![r.id] = SetFields(@, updateFieldsPart001(r.arg))]
              ELSE contests
       /\ Done(s, r.op, r.user, r.id, r.arg, r.snap, Updated)
  /\ UNCHANGED <<users, nextId, nreq>>

\* POST /contests of the snapshot part_001: verifyJWT, verifyCreator and
\* insertOne, with no posting quota; the handler has one store operation
CreateContestPart001(s, tok, body) ==
  /\ CanStart(s)
  /\ nreq' = nreq - 1
  /\ UNCHANGED users
  /\ IF Gate(tok, TRUE) # NoResp
       THEN /\ Done(s, "CreateContest", tok, 0, body, NoSnap, Gate(tok, TRUE))
            /\ UNCHANGED <<contests, nextId>>
     ELSE /\ nextId <= MaxContests
          /\ contests' = [i \in DOMAIN contests \cup {nextId} |->
                            IF i = nextId THEN NewContest(body, tok.email)
                                          ELSE contests[i]]
          /\ nextId' = nextId + 1
          /\ Done(s, "CreateContest", tok, nextId, body, NoSnap, Created)

\* POST /contests of the first snapshot in src/index.js: insertOne(req.body)
\* with no middleware in front; the handler has one store operation
AddContest(s, tok, body) ==
  /\ CanStart(s)
  /\ nreq' = nreq - 1
  /\ nextId <= MaxContests
  /\ contests' = [i \in DOMAIN contests \cup {nextId} |->
                    IF i = nextId THEN body ELSE contests[i]]
  /\ nextId' = nextId + 1
  /\ Done(s, "AddContest", tok, nextId, body, NoSnap, Created)
  /\ UNCHANGED users

\* res.json(contests)
ContestsSent == Resp(200, "contests")

\* GET /contests of the first snapshot in src/index.js: find().toArray()
ListContests(s, tok) ==
  /\ CanStart(s)
  /\ nreq' = nreq - 1
  /\ UNCHANGED <<users, contests, nextId>>
  /\ Done(s, "ListContests", tok, 0, "", NoSnap, ContestsSent)

(* ------------------------ DELETE /contests/:id ------------------------- *)

Deleted == Resp(200, "Contest deleted successfully")

\* the role-based delete check
MayDelete(tok, doc) ==
  IF tok.role = "creator"
    THEN doc.creatorEmail = tok.email /\ doc.status = "pending"
    ELSE tok.role = "admin"

\* verifyJWT, findOne, the role-based check
DeleteRead(s, tok, id) ==
  /\ CanStart(s)
  /\ nreq' = nreq - 1
  /\ UNCHANGED <<users, contests, nextId>>
  /\ IF Gate(tok, FALSE) # NoResp
         THEN Done(s, "DeleteContest", tok, id, "", NoSnap, Gate(tok, FALSE))
       ELSE IF id \notin DOMAIN contests
         THEN Done(s, "DeleteContest", tok, id, "", NoSnap, NotFound)
       ELSE IF ~MayDelete(tok, contests[id])
         THEN Done(s, "DeleteContest", tok, id, "", NoSnap, NotAllowed)
       ELSE Await(s, "DeleteContest", "delete", tok, id, "", NoSnap)

\* deleteOne({_id})
DeleteWrite(s) ==
  /\ reqs[s].op = "DeleteContest" /\ reqs[s].pc = "delete"
  /\ LET r == reqs[s] IN
       /\ contests' = [i \in DOMAIN contests \ {r.id} |-> contests[i]]
       /\ Done(s, r.op, r.user, r.id, r.arg, r.snap, Deleted)
  /\ UNCHANGED <<users, nextId, nreq>>

(* --------------------- PUT /contests/status/:id ------------------------ *)

InvalidStatus == Resp(400, "Invalid status")
\* res.send(result): the document after the update, null when none matched
StatusResult == Resp(200, "result")

\* status values a client may send: the two accepted ones and another one
StatusValues == {"confirmed", "rejected", "pending"}

\* ["confirmed", "rejected"].includes(status)
ValidStatus(status) == status \in {"confirmed", "rejected"}

\* verifyJWT, verifyAdmin, the status check, findOneAndUpdate({_id},
\* {$set: {status}}): the handler has one store operation and never reads the
\* stored status
SetStatus(s, tok, id, status) ==
  /\ CanStart(s)
  /\ nreq' = nreq - 1
  /\ UNCHANGED <<users, nextId>>
  /\ IF GateAdmin(tok) # NoResp
       THEN /\ Done(s, "SetStatus", tok, id, status, NoSnap, GateAdmin(tok))
            /\ contests' = contests
     ELSE IF ~ValidStatus(status)
       THEN /\ Done(s, "SetStatus", tok, id, status, NoSnap, InvalidStatus)
            /\ contests' = contests
     ELSE /\ Done(s, "SetStatus", tok, id, status, NoSnap, StatusResult)
          /\ contests' =
               IF id \in DOMAIN contests
                 THEN [contests EXCEPT ![id].status = status]
                 ELSE contests

(* -------------------------- GET /contests/:id -------------------------- *)

\* res.send(contest)
ContestSent == Resp(200, "contest")

\* contestsCollection.findOne({_id}): the document sent by GET /contests/:id
findOne(id) == contests[id]

\* verifyJWT, findOne, the response: the handler has one store operation
GetContest(s, tok, id) ==
  /\ CanStart(s)
  /\ nreq' = nreq - 1
  /\ UNCHANGED <<users, contests, nextId>>
  /\ IF Gate(tok, FALSE) # NoResp
         THEN Done(s, "GetContest", tok, id, "", NoSnap, Gate(tok, FALSE))
       ELSE IF id \notin DOMAIN contests
         THEN Done(s, "GetContest", tok, id, "", NoSnap, NotFound)
       ELSE Done(s, "GetContest", tok, id, "", NoSnap, ContestSent)

(* ------------------------- ensureDB / connectDB ------------------------ *)

ConnectionFailed == Resp(500, "Database connection failed")

\* connectDB up to its await: it returns at once when both collections are
\* set and calls client.connect() otherwise
connectDB(conn) ==
  IF conn.collections THEN conn ELSE [conn EXCEPT !.connects = @ + 1]

\* the pre-connect made when the module is loaded outside production:
\* connectDB() has called client.connect() and waits for it
PreConnecting == [connectDB(NoDB) EXCEPT !.startup = "connecting"]

\* ensureDB in front of GET /contests/:id with the collections unset: the
\* request calls connectDB and waits for client.connect()
EnsureDB(s, tok, id) ==
  /\ Free(s)
  /\ \A t \in Slots : t < s => ~Free(t)
  /\ nreq > 0
  /\ ~db.collections
  /\ nreq' = nreq - 1
  /\ db' = connectDB(db)
  /\ reqs' = [reqs EXCEPT ![s] = [op |-> "GetContest", pc |-> "connect", user |-> tok,
                                 id |-> id, arg |-> "", snap |-> NoSnap, resp |-> NoResp]]
  /\ UNCHANGED <<users, contests, nextId, out>>

\* client.connect() of a request resolves: connectDB sets the collections,
\* ensureDB calls next(), verifyJWT answers or the handler issues its findOne
ConnectDone(s) ==
  /\ reqs[s].pc = "connect"
  /\ db' = [db EXCEPT !.collections = TRUE]
  /\ IF Gate(reqs[s].user, FALSE) # NoResp
       THEN /\ reqs' = [reqs EXCEPT ![s] = Idle]
            /\ out' = [op |-> reqs[s].op, email |-> reqs[s].user.email, id |-> reqs[s].id,
                       resp |-> Gate(reqs[s].user, FALSE)]
       ELSE /\ reqs' = [reqs EXCEPT ![s].pc = "find"]
            /\ out' = out
  /\ UNCHANGED <<users, contests, nextId, nreq>>

\* client.connect() of a request rejects: connectDB rethrows and ensureDB
\* answers 500
ConnectFailed(s) ==
  /\ reqs[s].pc = "connect"
  /\ reqs' = [reqs EXCEPT ![s] = Idle]
  /\ out' = [op |-> reqs[s].op, email |-> reqs[s].user.email, id |-> reqs[s].id,
             resp |-> ConnectionFailed]
  /\ UNCHANGED <<users, contests, nextId, nreq, db>>

\* the findOne of a GET /contests/:id that had to connect first
GetContestFind(s) ==
  /\ reqs[s].op = "GetContest" /\ reqs[s].pc = "find"
  /\ UNCHANGED <<users, contests, nextId, nreq>>
  /\ LET r == reqs[s] IN
       IF r.id \notin DOMAIN contests
         THEN Done(s, r.op, r.user, r.id, r.arg, r.snap, NotFound)
         ELSE Done(s, r.op, r.user, r.id, r.arg, r.snap, ContestSent)

\* client.connect() of the pre-connect resolves: connectDB sets the collections
PreConnectDone ==
  /\ db.startup = "connecting"
  /\ db' = [db EXCEPT !.collections = TRUE, !.startup = "done"]
  /\ UNCHANGED <<users, contests, nextId, reqs, out, nreq>>

\* client.connect() of the pre-connect rejects: .catch(console.error)
PreConnectFailed ==
  /\ db.startup = "connecting"
  /\ db' = [db EXCEPT !.startup = "failed"]
  /\ UNCHANGED <<users, contests, nextId, reqs, out, nreq>>

(* --------------------- GET /contests/:id/submissions ------------------- *)

\* (contest.submissions || []).map(...): what the response shows of each
\* submission
SubmissionsSent(subs) ==
  [i \in 1..Len(subs) |->
     [participantEmail |-> subs[i].userEmail,
      taskInfo |-> subs[i].submission,
      status |-> subs[i].status]]

\* mutant of NotOwner: every creator is taken for the owner
NotOwnerNever(doc, tok) == FALSE

\* contest.creatorEmail !== req.user.email
NotOwner(doc, tok) == doc.creatorEmail # tok.email

\* verifyJWT, verifyCreator, findOne, the owner check, the response: the
\* handler has one store operation
ListSubmissions(s, tok, id) ==
  /\ CanStart(s)
  /\ nreq' = nreq - 1
  /\ UNCHANGED <<users, contests, nextId>>
  /\ IF Gate(tok, TRUE) # NoResp
         THEN Done(s, "ListSubmissions", tok, id, "", NoSnap, Gate(tok, TRUE))
       ELSE IF id \notin DOMAIN contests
         THEN Done(s, "ListSubmissions", tok, id, "", NoSnap, NotFound)
       ELSE IF NotOwner(contests[id], tok)
         THEN Done(s, "ListSubmissions", tok, id, "", NoSnap, NotAuthorized)
       ELSE Done(s, "ListSubmissions", tok, id, "", NoSnap,
                 Resp(200, SubmissionsSent(contests[id].submissions)))

(* ------------------------ POST /users/buy-package ---------------------- *)

InvalidPackage == Resp(400, "Invalid package")
Purchased == Resp(200, "Package purchased successfully")

\* mutant of FindPackage: an unknown id yields the starter package
FindPackageOrStarter(packageId) ==
  IF {p \in defaultPackages : p.id = packageId} = {}
    THEN {p \in defaultPackages : p.id = "starter"}
    ELSE {p \in defaultPackages : p.id = packageId}

\* defaultPackages.find(p => p.id === packageId)
FindPackage(packageId) == {p \in defaultPackages : p.id = packageId}

\* verifyJWT, the catalogue lookup, updateOne({email}, {$set: {contestLimit,
\* currentPackage}}): the handler has one store operation
BuyPackage(s, tok, packageId) ==
  /\ CanStart(s)
  /\ nreq' = nreq - 1
  /\ UNCHANGED <<contests, nextId>>
  /\ IF Gate(tok, FALSE) # NoResp
       THEN /\ Done(s, "BuyPackage", tok, 0, packageId, NoSnap, Gate(tok, FALSE))
            /\ users' = users
     ELSE IF FindPackage(packageId) = {}
       THEN /\ Done(s, "BuyPackage", tok, 0, packageId, NoSnap, InvalidPackage)
            /\ users' = users
     ELSE LET pkg == CHOOSE p \in FindPackage(packageId) : TRUE IN
            /\ Done(s, "BuyPackage", tok, 0, packageId, NoSnap, Purchased)
            /\ users' =
                 [i \in DOMAIN users |->
                    IF i \in UsersWith(tok.email)
                         /\ \A j \in UsersWith(tok.email) : i <= j
                      THEN [users[i] EXCEPT !.contestLimit = pkg.limit,
                                            !.currentPackage = pkg.id]
                      ELSE users[i]]

(* ---------------------------- GET /leaderboard ------------------------- *)

\* {$unwind: "$submissions"}: one entry per stored submission, named by its
\* contest and its position
Unwound(cs) ==
  UNION {{<<id, i>> : i \in 1..Len(cs[id].submissions)} : id \in DOMAIN cs}

\* {$match: {"submissions.status": "winner"}}
Matched(cs) == {p \in Unwound(cs) : cs[p[1]].submissions[p[2]].status = "winner"}

\* {$group: {_id: "$submissions.userEmail", points: {$sum: 1}}}
Grouped(cs) ==
  { [email |-> e,
     points |-> Cardinality({p \in Matched(cs) :
                               cs[p[1]].submissions[p[2]].userEmail = e})] :
      e \in {cs[p[1]].submissions[p[2]].userEmail : p \in Matched(cs)} }

\* mutant of Sorted: the groups are left in any order
SortedAnyOrder(groups) ==
  { o \in [1..Cardinality(groups) -> groups] :
      \A i, j \in DOMAIN o : i # j => o[i] # o[j] }

\* {$sort: {points: -1}}: the orders of the groups with non-increasing points
\* (the order of groups with equal points is not determined)
Sorted(groups) ==
  { o \in [1..Cardinality(groups) -> groups] :
      /\ \A i, j \in DOMAIN o : i # j => o[i] # o[j]
      /\ \A i, j \in DOMAIN o : i < j => o[i].points >= o[j].points }

\* {$lookup: {from: "users", localField: "_id", foreignField: "email"}},
\* {$unwind: "$userDetails"} and {$project}: for one group, one row per user
\* document with the group's email, in the order of the store
Joined(group) ==
  LET RECURSIVE rows(_)
      rows(i) ==
        IF i > Len(users) THEN <<>>
        ELSE IF users[i].email = group.email
          THEN <<[email |-> group.email, role |-> users[i].role,
                  points |-> group.points]>> \o rows(i + 1)
        ELSE rows(i + 1)
  IN rows(1)

\* the rows of the groups in the sorted order
Project(o) ==
  LET RECURSIVE rows(_)
      rows(i) == IF i > Len(o) THEN <<>> ELSE Joined(o[i]) \o rows(i + 1)
  IN rows(1)

\* the results contestsCollection.aggregate([...]).toArray() may give
leaderboard == {Project(o) : o \in Sorted(Grouped(contests))}

\* GET /leaderboard: no middleware reads the credential; the handler has one
\* store operation and sends its result
GetLeaderboard(s, rows) ==
  /\ CanStart(s)
  /\ nreq' = nreq - 1
  /\ UNCHANGED <<users, contests, nextId>>
  /\ rows \in leaderboard
  /\ Done(s, "Leaderboard", NoToken, 0, "", NoSnap, Resp(200, rows))

\* GET /leaderboard of the second snapshot in src/index.js: the points of a
\* user are the contests that have a winner submission of that user
ScanPoints(user) ==
  Cardinality({id \in DOMAIN contests :
                 \E i \in 1..Len(contests[id].submissions) :
                   /\ contests[id].submissions[i].userEmail = user.email
                   /\ contests[id].submissions[i].status = "winner"})

\* users.map(...) and leaderboard.sort((a, b) => b.points - a.points): one
\* row per user document, by non-increasing points, users with equal points
\* in the order of the store
leaderboardScan ==
  { [k \in DOMAIN o |-> [id |-> o[k], role |-> users[o[k]].role,
                          points |-> ScanPoints(users[o[k]])]] :
      o \in { q \in [DOMAIN users -> DOMAIN users] :
                /\ \A i, j \in DOMAIN q : i # j => q[i] # q[j]
                /\ \A i, j \in DOMAIN q : i < j =>
                     \/ ScanPoints(users[q[i]]) > ScanPoints(users[q[j]])
                     \/ /\ ScanPoints(users[q[i]]) = ScanPoints(users[q[j]])
                        /\ q[i] < q[j] } }

\* GET /leaderboard of the second snapshot in src/index.js: find({}) on both
\* collections (modelled as one read), the scan, the response
GetLeaderboardScan(s, rows) ==
  /\ CanStart(s)
  /\ nreq' = nreq - 1
  /\ UNCHANGED <<users, contests, nextId>>
  /\ rows \in leaderboardScan
  /\ Done(s, "LeaderboardScan", NoToken, 0, "", NoSnap, Resp(200, rows))

(* -------------------------- POST /auth/register ------------------------ *)

UserExists == Resp(400, "User already exists")

\* res.send({token, role: user.role, ...}): the response that carries the
\* credential; its message is the role of the credential
TokenSent(tok) == Resp(200, tok.role)

\* role || "user"
RoleOrUser(role) == IF role = "" THEN "user" ELSE role

\* findOne({email: email.toLowerCase()}) and the early return; arg is the
\* document to insert
AuthRegisterFind(s, email, role) ==
  /\ CanStart(s)
  /\ nreq' = nreq - 1
  /\ UNCHANGED <<users, contests, nextId>>
  /\ IF findUser(toLowerCase(email)) # <<>>
         THEN Done(s, "AuthRegister", [NoToken EXCEPT !.email = toLowerCase(email)],
                   0, "", NoSnap, UserExists)
       ELSE Await(s, "AuthRegister", "insert",
                  [NoToken EXCEPT !.email = toLowerCase(email)], 0,
                  NewUser(email, RoleOrUser(role)), NoSnap)

\* usersCollection.insertOne(user), createToken(user), the response
AuthRegisterInsert(s) ==
  /\ reqs[s].op = "AuthRegister" /\ reqs[s].pc = "insert"
  /\ Len(users) < MaxUsers
  /\ LET r == reqs[s] IN
       /\ users' = Append(users, r.arg)
       /\ Done(s, r.op, r.user, r.id, r.arg, r.snap, TokenSent(createToken(r.arg)))
  /\ UNCHANGED <<contests, nextId, nreq>>

(* --------------------------- POST /auth/login -------------------------- *)

UserNotFound == Resp(404, "User not found")
InvalidCredentials == Resp(400, "Invalid credentials")

\* findOne({email: email.toLowerCase()}), the password check, createToken:
\* the handler has one store operation; ok says whether the password sent
\* matches the stored hash
Login(s, email, ok) ==
  /\ CanStart(s)
  /\ nreq' = nreq - 1
  /\ UNCHANGED <<users, contests, nextId>>
  /\ LET who == [NoToken EXCEPT !.email = toLowerCase(email)]
         found == findUser(toLowerCase(email)) IN
       IF found = <<>>
         THEN Done(s, "Login", who, 0, "", NoSnap, UserNotFound)
       ELSE IF found[1].password = "" \/ ~ok
         THEN Done(s, "Login", who, 0, "", NoSnap, InvalidCredentials)
       ELSE Done(s, "Login", who, 0, "", NoSnap, TokenSent(createToken(found[1])))

(* ------------------------ POST /auth/google-login ---------------------- *)

\* the document /auth/google-login inserts: role "user", password null and no
\* contestLimit
GoogleUser(email, photoURL) ==
  [email |-> toLowerCase(email), role |-> "user", contestLimit |-> Falsy,
   currentPackage |-> "", photoURL |-> photoURL, password |-> ""]

\* findOne({email: email.toLowerCase()}); snap is the document read, arg the
\* one to insert or the photo to store
GoogleFind(s, email, photoURL) ==
  /\ CanStart(s)
  /\ nreq' = nreq - 1
  /\ UNCHANGED <<users, contests, nextId>>
  /\ LET who == [NoToken EXCEPT !.email = toLowerCase(email)]
         found == findUser(toLowerCase(email)) IN
       IF found = <<>>
         THEN Await(s, "GoogleLogin", "insert", who, 0,
                    GoogleUser(email, photoURL), NoSnap)
       ELSE IF photoURL # "" /\ found[1].photoURL = ""
         THEN Await(s, "GoogleLogin", "photo", who, 0, photoURL, found)
       ELSE Done(s, "GoogleLogin", who, 0, "", found,
                 TokenSent(createToken(found[1])))

\* usersCollection.insertOne(user), createToken(user), the response
GoogleInsert(s) ==
  /\ reqs[s].op = "GoogleLogin" /\ reqs[s].pc = "insert"
  /\ Len(users) < MaxUsers
  /\ LET r == reqs[s] IN
       /\ users' = Append(users, r.arg)
       /\ Done(s, r.op, r.user, r.id, r.arg, r.snap, TokenSent(createToken(r.arg)))
  /\ UNCHANGED <<contests, nextId, nreq>>

\* the position (_id) of a document read earlier: documents are never removed
PositionOf(doc) ==
  CHOOSE i \in DOMAIN users :
    /\ users[i].email = doc.email
    /\ \A j \in UsersWith(doc.email) : i <= j

\* updateOne({_id: user._id}, {$set: {photoURL}}), createToken(user) with the
\* document read by findOne, the response
GooglePhoto(s) ==
  /\ reqs[s].op = "GoogleLogin" /\ reqs[s].pc = "photo"
  /\ LET r == reqs[s] IN
       /\ users' = [users EXCEPT ![PositionOf(r.snap[1])].photoURL = r.arg]
       /\ Done(s, r.op, r.user, r.id, r.arg, r.snap,
               TokenSent(createToken(r.snap[1])))
  /\ UNCHANGED <<contests, nextId, nreq>>

(* -------------------------- PUT /users/:id/role ------------------------ *)

RoleUpdated == Resp(200, "Role updated successfully")

\* role values a client may send
Roles == {"user", "creator", "admin"}

\* verifyJWT, verifyAdmin, updateOne({_id}, {$set: {role}}): the handler has
\* one store operation
SetRole(s, tok, id, role) ==
  /\ CanStart(s)
  /\ nreq' = nreq - 1
  /\ UNCHANGED <<contests, nextId>>
  /\ IF GateAdmin(tok) # NoResp
       THEN /\ Done(s, "SetRole", tok, id, role, NoSnap, GateAdmin(tok))
            /\ users' = users
     ELSE /\ Done(s, "SetRole", tok, id, role, NoSnap, RoleUpdated)
          /\ users' =
               IF id \in DOMAIN users
                 THEN [users EXCEPT ![id].role = role]
                 ELSE users

(* ----------------------------- PUT /auth/me ---------------------------- *)

ProfileSent == Resp(200, "profile")

\* mutant of profileFields: the whole body is written
profileFieldsAll(body) == body

\* the fields of the body copied into updateFields (name, photoURL and bio;
\* the model carries photoURL)
profileFields(body) == [f \in DOMAIN body \cap {"photoURL"} |-> body[f]]

\* bodies a client may send to PUT /auth/me
ProfileBodies == {[photoURL |-> "p"], [photoURL |-> "q", role |-> "admin"]}

\* {$set: fields} on a user document
SetUserFields(doc, fields) ==
  [email |-> doc.email,
   role |-> Field(fields, "role", doc.role),
   contestLimit |-> doc.contestLimit,
   currentPackage |-> doc.currentPackage,
   photoURL |-> Field(fields, "photoURL", doc.photoURL),
   password |-> doc.password]

\* verifyJWT, findOneAndUpdate({email}, {$set: updateFields}): the handler
\* has one store operation
UpdateProfile(s, tok, body) ==
  /\ CanStart(s)
  /\ nreq' = nreq - 1
  /\ UNCHANGED <<contests, nextId>>
  /\ IF Gate(tok, FALSE) # NoResp
       THEN /\ Done(s, "UpdateProfile", tok, 0, body, NoSnap, Gate(tok, FALSE))
            /\ users' = users
     ELSE IF findUser(toLowerCase(tok.email)) = <<>>
       THEN /\ Done(s, "UpdateProfile", tok, 0, body, NoSnap, UserNotFound)
            /\ users' = users
     ELSE /\ Done(s, "UpdateProfile", tok, 0, body, NoSnap, ProfileSent)
          /\ users' =
               [users EXCEPT ![PositionOf(Account(toLowerCase(tok.email)))] =
                  SetUserFields(@, profileFields(body))]

(* ------------------------------- Next ---------------------------------- *)

\* credentials of the participants and of the contest creators
UserTokens == {createToken(Account(e)) : e \in Users}
CreatorTokens == {createToken(Account(e)) : e \in Creators}

\* ids a client may name: every id generated so far (deleted ones included)
\* and one that is not in the store
KnownIds == {i \in ContestIds : i <= nextId}

CreateBodies == {b \in Bodies : DOMAIN b = {"title"}}
UpdateBodies == {b \in Bodies : "title" \in DOMAIN b /\ DOMAIN b # {"title"}}

\* the contest lifecycle: creation, edits, registration, submissions, winner
Next ==
  \/ \E s \in Slots, tok \in UserTokens, id \in KnownIds : RegisterRead(s, tok, id)
  \/ \E s \in Slots : RegisterWrite(s)
  \/ \E s \in Slots, tok \in UserTokens, id \in KnownIds, p \in Payloads :
       SubmitRead(s, tok, id, p)
  \/ \E s \in Slots : SubmitPush(s)
  \/ \E s \in Slots, tok \in CreatorTokens, id \in KnownIds, e \in Users :
       DeclareRead(s, tok, id, e)
  \/ \E s \in Slots : DeclareWrite(s)
  \/ \E s \in Slots, tok \in CreatorTokens, b \in CreateBodies : CreateFindUser(s, tok, b)
  \/ \E s \in Slots : CreateCount(s)
  \/ \E s \in Slots : CreateInsert(s)
  \/ \E s \in Slots, tok \in CreatorTokens, id \in KnownIds, b \in Bodies :
       EditRead(s, tok, id, b)
  \/ \E s \in Slots : EditWrite(s)
  \/ \E s \in Slots, tok \in CreatorTokens, id \in KnownIds, b \in UpdateBodies :
       UpdateRead(s, tok, id, b)
  \/ \E s \in Slots : UpdateWrite(s)

Spec == Init /\ [][Next]_vars

\* the posting quota: creation, deletion and package purchases
NextQuota ==
  \/ \E s \in Slots, tok \in CreatorTokens, b \in CreateBodies : CreateFindUser(s, tok, b)
  \/ \E s \in Slots : CreateCount(s)
  \/ \E s \in Slots : CreateInsert(s)
  \/ \E s \in Slots, tok \in CreatorTokens, id \in KnownIds : DeleteRead(s, tok, id)
  \/ \E s \in Slots : DeleteWrite(s)
  \/ \E s \in Slots, tok \in CreatorTokens, p \in PackageIds : BuyPackage(s, tok, p)

SpecQuota == Init /\ [][NextQuota]_vars

\* the entries of a contest: registration, submissions and the winner, with
\* no edit of the contest document
InitEntries ==
  /\ users = Accounts(<<"u1", "u2", "c1", "c2">>)
  /\ contests = <<>>
  /\ nextId = 1
  /\ reqs = [s \in Slots |-> Idle]
  /\ out = NoOut
  /\ nreq = MaxEntryRequests
  /\ db = Connected

NextEntries ==
  \/ \E s \in Slots, tok \in CreatorTokens, b \in CreateBodies : CreateFindUser(s, tok, b)
  \/ \E s \in Slots : CreateCount(s)
  \/ \E s \in Slots : CreateInsert(s)
  \/ \E s \in Slots, tok \in UserTokens, id \in KnownIds : RegisterRead(s, tok, id)
  \/ \E s \in Slots : RegisterWrite(s)
  \/ \E s \in Slots, tok \in UserTokens, id \in KnownIds, p \in Payloads :
       SubmitRead(s, tok, id, p)
  \/ \E s \in Slots : SubmitPush(s)
  \/ \E s \in Slots, tok \in CreatorTokens, id \in KnownIds, e \in Users :
       DeclareRead(s, tok, id, e)
  \/ \E s \in Slots : DeclareWrite(s)

SpecEntries == InitEntries /\ [][NextEntries]_vars

\* the moderation of a contest: creation, the admin's status decision, edits,
\* deletion and reads
InitStatus ==
  /\ users = Accounts(<<"u1", "u2", "c1", "c2", "a1">>)
  /\ contests = <<>>
  /\ nextId = 1
  /\ reqs = [s \in Slots |-> Idle]
  /\ out = NoOut
  /\ nreq = MaxStatusRequests
  /\ db = Connected

\* callers of PUT /contests/status/:id: the admin and a creator
Moderators == {createToken(Account(e)) : e \in {"a1", "c1"}}

\* callers of DELETE /contests/:id: the admin, both creators and a plain user
Deleters == {createToken(Account(e)) : e \in {"a1", "c1", "c2", "u1"}}

\* callers of GET /contests/:id: a creator and a caller without a credential
Readers == {createToken(Account("c1")), NoToken}

\* bodies sent to PUT /contests/edit/:id and PUT /contests/:id
EditBodies == {b \in Bodies : "title" \in DOMAIN b}

NextStatus ==
  \/ \E s \in Slots, b \in Bodies : CreateFindUser(s, createToken(Account("c1")), b)
  \/ \E s \in Slots : CreateCount(s)
  \/ \E s \in Slots : CreateInsert(s)
  \/ \E s \in Slots, tok \in Moderators, id \in KnownIds, st \in StatusValues :
       SetStatus(s, tok, id, st)
  \/ \E s \in Slots, tok \in CreatorTokens, id \in KnownIds, b \in EditBodies :
       EditRead(s, tok, id, b)
  \/ \E s \in Slots : EditWrite(s)
  \/ \E s \in Slots, tok \in CreatorTokens, id \in KnownIds, b \in EditBodies :
       UpdateRead(s, tok, id, b)
  \/ \E s \in Slots : UpdateWrite(s)
  \/ \E s \in Slots, tok \in Deleters, id \in KnownIds : DeleteRead(s, tok, id)
  \/ \E s \in Slots : DeleteWrite(s)
  \/ \E s \in Slots, tok \in Readers, id \in KnownIds : GetContest(s, tok, id)

SpecStatus == InitStatus /\ [][NextStatus]_vars

\* the accounts: registration, the two logins, role changes, profile updates
\* and package purchases
InitAuth ==
  /\ users = Accounts(<<"a1", "u1", "c1">>)
  /\ contests = <<>>
  /\ nextId = 1
  /\ reqs = [s \in Slots |-> Idle]
  /\ out = NoOut
  /\ nreq = MaxAuthRequests
  /\ db = Connected

\* emails sent by clients that have no account yet: one address in two
\* spellings
NewEmails == {"A@x.com", "a@x.com"}

\* callers of PUT /users/:id/role: the admin and a plain user
RoleCallers == {createToken(Account(e)) : e \in {"a1", "u1"}}

\* callers of PUT /auth/me and POST /users/buy-package
AccountCallers == {createToken(Account(e)) : e \in {"u1", "c1"}}

NextAuth ==
  \/ \E s \in Slots, e \in NewEmails, r \in {"", "creator"} : AuthRegisterFind(s, e, r)
  \/ \E s \in Slots : AuthRegisterInsert(s)
  \/ \E s \in Slots, e \in {"u1", "a@x.com"}, ok \in BOOLEAN : Login(s, e, ok)
  \/ \E s \in Slots, e \in {"u1", "A@x.com"}, p \in {"", "p"} : GoogleFind(s, e, p)
  \/ \E s \in Slots : GoogleInsert(s)
  \/ \E s \in Slots : GooglePhoto(s)
  \/ \E s \in Slots, tok \in RoleCallers, id \in DOMAIN users, r \in Roles :
       SetRole(s, tok, id, r)
  \/ \E s \in Slots, tok \in AccountCallers, b \in ProfileBodies :
       UpdateProfile(s, tok, b)
  \/ \E s \in Slots, tok \in AccountCallers, p \in {"pro", "gold"} :
       BuyPackage(s, tok, p)

SpecAuth == InitAuth /\ [][NextAuth]_vars

\* the snapshot part_001: creation and the update of the allow-listed fields
Part001Bodies ==
  { [title |-> "t1"], [category |-> "art"], [x \in {"category "} |-> "art"],
    [title |-> "t2", status |-> "confirmed"] }

NextPart001 ==
  \/ \E s \in Slots, tok \in CreatorTokens, b \in CreateBodies :
       CreateContestPart001(s, tok, b)
  \/ \E s \in Slots, tok \in CreatorTokens, id \in KnownIds, b \in Part001Bodies :
       UpdateRead(s, tok, id, b)
  \/ \E s \in Slots : UpdateWritePart001(s)

SpecPart001 == Init /\ [][NextPart001]_vars

\* the first snapshot in src/index.js: one collection and no accounts
InitFirst ==
  /\ users = <<>>
  /\ contests = <<>>
  /\ nextId = 1
  /\ reqs = [s \in Slots |-> Idle]
  /\ out = NoOut
  /\ nreq = MaxRequests
  /\ db = Connected

\* the callers of the first snapshot: one without a credential and one with
\* the credential of a plain user
FirstCallers == {NoToken, [email |-> "u1", role |-> "user"]}

NextFirst ==
  \/ \E s \in Slots, tok \in FirstCallers, b \in Bodies : AddContest(s, tok, b)
  \/ \E s \in Slots, tok \in FirstCallers : ListContests(s, tok)

SpecFirst == InitFirst /\ [][NextFirst]_vars

\* the role gates: credentials issued by a login before any role change,
\* role changes, and requests to gated routes that carry those credentials
InitGate ==
  /\ users = Accounts(<<"a1", "u1", "c1">>)
  /\ contests = [i \in {1} |-> NewContest([title |-> "t1"], "c1")]
  /\ nextId = 2
  /\ reqs = [s \in Slots |-> Idle]
  /\ out = NoOut
  /\ nreq = MaxGateRequests
  /\ db = Connected

\* the credentials the logins issued in the initial state; a credential is
\* accepted for 7 days whatever happens to the account
IssuedTokens == {createToken(u) : u \in Range(Accounts(<<"a1", "u1", "c1">>))}

NextGate ==
  \/ \E s \in Slots, tok \in IssuedTokens, id \in DOMAIN users, r \in Roles :
       SetRole(s, tok, id, r)
  \/ \E s \in Slots, tok \in IssuedTokens, id \in KnownIds, st \in StatusValues :
       SetStatus(s, tok, id, st)
  \/ \E s \in Slots, tok \in IssuedTokens, id \in KnownIds : ListSubmissions(s, tok, id)
  \/ \E s \in Slots, tok \in IssuedTokens, b \in CreateBodies : CreateFindUser(s, tok, b)
  \/ \E s \in Slots : CreateCount(s)
  \/ \E s \in Slots : CreateInsert(s)

SpecGate == InitGate /\ [][NextGate]_vars

\* the connection: the module is loaded, in production or not, and requests
\* for GET /contests/:id arrive before and after the collections are set
InitConnect ==
  /\ users = Accounts(<<"u1", "u2", "c1", "c2">>)
  /\ contests = [i \in {1} |-> NewContest([title |-> "t1"], "c1")]
  /\ nextId = 2
  /\ reqs = [s \in Slots |-> Idle]
  /\ out = NoOut
  /\ nreq = MaxConnectRequests
  /\ db \in {NoDB, PreConnecting}

NextConnect ==
  \/ \E s \in Slots, tok \in Readers, id \in KnownIds : EnsureDB(s, tok, id)
  \/ \E s \in Slots : ConnectDone(s)
  \/ \E s \in Slots : ConnectFailed(s)
  \/ \E s \in Slots : GetContestFind(s)
  \/ PreConnectDone
  \/ PreConnectFailed
  \/ \E s \in Slots, tok \in Readers, id \in KnownIds : GetContest(s, tok, id)

SpecConnect == InitConnect /\ [][NextConnect]_vars

\* the submissions of a contest and who reads them: a contest of c1 with
\* both users registered, submissions, edits (which may hand the contest to
\* another creator) and the listing
InitSubmissions ==
  /\ users = Accounts(<<"u1", "u2", "c1", "c2">>)
  /\ contests = [i \in {1} |->
                   [NewContest([title |-> "t1"], "c1") EXCEPT !.participants = <<"u1", "u2">>]]
  /\ nextId = 2
  /\ reqs = [s \in Slots |-> Idle]
  /\ out = NoOut
  /\ nreq = MaxListRequests
  /\ db = Connected

\* callers of GET /contests/:id/submissions: both creators, a plain user and
\* a caller without a credential
Listers == CreatorTokens \cup {createToken(Account("u1")), NoToken}

NextSubmissions ==
  \/ \E s \in Slots, tok \in UserTokens, id \in KnownIds, p \in Payloads :
       SubmitRead(s, tok, id, p)
  \/ \E s \in Slots : SubmitPush(s)
  \/ \E s \in Slots, tok \in CreatorTokens, id \in KnownIds, b \in Bodies :
       EditRead(s, tok, id, b)
  \/ \E s \in Slots : EditWrite(s)
  \/ \E s \in Slots, tok \in Listers, id \in KnownIds : ListSubmissions(s, tok, id)

SpecSubmissions == InitSubmissions /\ [][NextSubmissions]_vars

\* the leaderboard over the stores the contest routes can leave behind
Won(email) == [Submission(email, "work") EXCEPT !.status = "winner"]

\* submission lists of a contest: none, one winner, a winner with two
\* submissions (DeclareWinner flags every submission of the user), a winner
\* next to a plain submission, and a winner whose email has no account (a
\* list written by EditContest)
BoardSubmissions ==
  { <<>>, <<Won("u1")>>, <<Won("u2")>>, <<Won("u1"), Won("u1")>>,
    <<Submission("u1", "work"), Won("u2")>>, <<Won("x1")>> }

\* the user documents: the registered accounts, or the same with a second
\* document for u1 (two overlapping registrations)
BoardUsers == {Accounts(<<"u1", "u2">>), Accounts(<<"u1", "u2", "u1">>)}

InitBoard ==
  /\ users \in BoardUsers
  /\ contests \in [ContestIds ->
                     {[NewContest([title |-> "t1"], "c1") EXCEPT !.submissions = subs] :
                        subs \in BoardSubmissions}]
  /\ nextId = MaxContests + 1
  /\ reqs = [s \in Slots |-> Idle]
  /\ out = NoOut
  /\ nreq = MaxBoardRequests
  /\ db = Connected

NextBoard ==
  \/ \E s \in Slots, rows \in leaderboard : GetLeaderboard(s, rows)
  \/ \E s \in Slots, rows \in leaderboardScan : GetLeaderboardScan(s, rows)

SpecBoard == InitBoard /\ [][NextBoard]_vars

(* ============================== claims ================================= *)

Winners(subs) == {i \in 1..Len(subs) : subs[i].status = "winner"}

Occurrences(s, x) == Cardinality({i \in 1..Len(s) : s[i] = x})

\* C1: in every reachable state every contest has at most one submission
\* whose status is "winner".
C1_AtMostOneWinner ==
  \A id \in DOMAIN contests : Cardinality(Winners(contests[id].submissions)) <= 1

\* C2: when the request answered last was a successful DeclareWinner on a
\* contest and no handler is running, a DeclareWinner on the same contest,
\* whichever user it names, is answered "Winner already declared" and
\* changes no submission.
C2_SecondDeclareConflicts ==
  [][\A s \in Slots, tok \in CreatorTokens, e \in Users :
       ( /\ out.op = "DeclareWinner" /\ out.resp = Declared
         /\ out.id \in DOMAIN contests
         /\ \A t \in Slots : Free(t)
         /\ DeclareRead(s, tok, out.id, e) )
       => ( /\ out'.resp = AlreadyDeclared
            /\ reqs' = reqs
            /\ contests' = contests )]_vars

\* C3: a DeclareWinner write changes a contest's submissions only when the
\* caller is a creator whose email is the contest's creatorEmail.
C3_OnlyOwnerDeclares ==
  [][\A s \in Slots :
       (DeclareWrite(s) /\ contests' # contests)
       => ( /\ reqs[s].user.role = "creator"
            /\ reqs[s].user.email = contests[reqs[s].id].creatorEmail )]_vars

\* C4: two Register requests by distinct users that read the same participant
\* list: once the first has written and answered success, the write of the
\* second also answers success and stores the list it read plus its own
\* email, which does not contain the first user's email (a lost update).
C4_StaleRegisterOverwrites ==
  [][\A s \in Slots, e1 \in Emails :
       ( /\ RegisterWrite(s)
         /\ reqs[s].id \in DOMAIN contests
         /\ e1 # reqs[s].user.email
         /\ out = [op |-> "Register", email |-> e1, id |-> reqs[s].id,
                   resp |-> Registered]
         /\ contests[reqs[s].id].participants = Append(reqs[s].snap, e1) )
       => ( /\ out' = [op |-> "Register", email |-> reqs[s].user.email,
                       id |-> reqs[s].id, resp |-> Registered]
            /\ contests'[reqs[s].id].participants =
                 Append(reqs[s].snap, reqs[s].user.email)
            /\ ~Includes(contests'[reqs[s].id].participants, e1) )]_vars

\* C4 witness: the first Register has written and answered success while the
\* second, by another user, still holds the list both of them read.
C4_Overlap ==
  \E s \in Slots, e1 \in Emails :
    /\ reqs[s].op = "Register" /\ reqs[s].pc = "write"
    /\ reqs[s].id \in DOMAIN contests
    /\ e1 # reqs[s].user.email
    /\ out = [op |-> "Register", email |-> e1, id |-> reqs[s].id, resp |-> Registered]
    /\ contests[reqs[s].id].participants = Append(reqs[s].snap, e1)

\* C5: in every reachable state no contest's participant list holds an
\* email twice.
C5_ParticipantsUnique ==
  \A id \in DOMAIN contests :
    \A e \in Range(contests[id].participants) :
      Occurrences(contests[id].participants, e) = 1

\* C6: a Register by a user who is already in the contest's participant list
\* is answered "Already registered", starts no write and leaves the list
\* unchanged.
C6_RepeatRegisterConflicts ==
  [][\A s \in Slots, tok \in UserTokens, id \in DOMAIN contests :
       ( /\ Includes(contests[id].participants, tok.email)
         /\ RegisterRead(s, tok, id) )
       => ( /\ out' = [op |-> "Register", email |-> tok.email, id |-> id,
                       resp |-> AlreadyRegistered]
            /\ reqs' = reqs
            /\ contests' = contests )]_vars

\* C6 witness: a repeated Register was refused and the list holds the email once.
C6_RepeatRefused ==
  /\ out.op = "Register" /\ out.resp = AlreadyRegistered
  /\ out.id \in DOMAIN contests
  /\ Occurrences(contests[out.id].participants, out.email) = 1

\* C7 as claimed: a SubmitTask by a caller who is not in the participant list
\* is answered "You are not registered for this contest" for every payload,
\* and appends nothing.
C7_NonParticipantForbidden ==
  [][\A s \in Slots, tok \in UserTokens, id \in DOMAIN contests, p \in Payloads :
       ( /\ ~Includes(contests[id].participants, tok.email)
         /\ SubmitRead(s, tok, id, p) )
       => ( /\ out' = [op |-> "SubmitTask", email |-> tok.email, id |-> id,
                       resp |-> NotRegistered]
            /\ reqs' = reqs
            /\ contests' = contests )]_vars

\* C7 as amended: a SubmitTask by a caller who is not in the participant list
\* is refused and appends nothing; the answer is "Submission cannot be empty"
\* for an empty payload and "You are not registered for this contest" for
\* every other payload.
C7_NonParticipantRejected ==
  [][\A s \in Slots, tok \in UserTokens, id \in DOMAIN contests, p \in Payloads :
       ( /\ ~Includes(contests[id].participants, tok.email)
         /\ SubmitRead(s, tok, id, p) )
       => ( /\ out' = [op |-> "SubmitTask", email |-> tok.email, id |-> id,
                       resp |-> IF p = "" THEN EmptySubmission ELSE NotRegistered]
            /\ reqs' = reqs
            /\ contests' = contests )]_vars

\* C7 witness: a non-participant's SubmitTask with a payload was refused.
C7_Refused ==
  /\ out.op = "SubmitTask" /\ out.resp = NotRegistered
  /\ out.id \in DOMAIN contests
  /\ ~Includes(contests[out.id].participants, out.email)
  /\ \A i \in 1..Len(contests[out.id].submissions) :
       contests[out.id].submissions[i].userEmail # out.email

\* C8: in every reachable state the submitter of every stored submission is
\* in the participant list of its contest.
C8_SubmittersAreParticipants ==
  \A id \in DOMAIN contests :
    \A i \in 1..Len(contests[id].submissions) :
      Includes(contests[id].participants, contests[id].submissions[i].userEmail)

\* C9: a CreateContest whose creator's quota is the one the handler read:
\* when the creator owns at least quota contests the request is answered
\* "Contest limit reached" and inserts nothing; otherwise it goes on to the
\* insert, which answers success and raises the creator's number of owned
\* contests by exactly one.
C9_QuotaGate ==
  [][\A s \in Slots :
       /\ ( /\ CreateCount(s)
            /\ reqs[s].snap = findUser(reqs[s].user.email) )
          => IF CountOwned(contests, reqs[s].user.email)
                  >= EffectiveLimit(Account(reqs[s].user.email))
               THEN /\ out' = [op |-> "CreateContest", email |-> reqs[s].user.email,
                               id |-> 0, resp |-> LimitReached]
                    /\ Free(s)'
                    /\ contests' = contests
               ELSE /\ reqs'[s].pc = "insert"
                    /\ contests' = contests
       /\ CreateInsert(s)
          => /\ out'.resp = Created
             /\ CountOwned(contests', reqs[s].user.email)
                  = CountOwned(contests, reqs[s].user.email) + 1
             /\ Cardinality(DOMAIN contests') = Cardinality(DOMAIN contests) + 1
             /\ \A i \in DOMAIN contests : contests'[i] = contests[i]]_vars

\* C9 witness: a creator with quota 2 who owns 2 contests was refused.
C9_Refused ==
  /\ out.op = "CreateContest" /\ out.resp = LimitReached
  /\ EffectiveLimit(Account(out.email)) = 2
  /\ CountOwned(contests, out.email) = 2

\* C10: in every reachable state no creator owns more contests than the
\* creator's current quota.
C10_WithinQuota ==
  \A i \in DOMAIN users :
    CountOwned(contests, users[i].email) <= EffectiveLimit(users[i])

\* C11: once a contest's status is "confirmed" or "rejected", no step changes
\* it to a different value while the contest is in the store.
C11_StatusTerminal ==
  [][\A id \in DOMAIN contests :
       ( /\ contests[id].status \in {"confirmed", "rejected"}
         /\ id \in DOMAIN contests' )
       => contests'[id].status = contests[id].status]_vars

\* C12: for a contest whose stored status is "confirmed", an EditContest by
\* the owning creator is answered "Not allowed" and changes nothing, while an
\* UpdateContestFields by the same creator with a title goes on to its write,
\* which answers success and stores that title.
C12_ConfirmedEditRefusedUpdateAllowed ==
  [][/\ \A s \in Slots, tok \in CreatorTokens, id \in DOMAIN contests,
           b \in EditBodies :
             ( /\ contests[id].status = "confirmed"
               /\ contests[id].creatorEmail = tok.email )
             => /\ EditRead(s, tok, id, b)
                   => ( /\ out' = [op |-> "EditContest", email |-> tok.email,
                                   id |-> id, resp |-> NotAllowed]
                        /\ reqs' = reqs
                        /\ contests' = contests )
                /\ UpdateRead(s, tok, id, b)
                   => ( /\ reqs'[s].pc = "write"
                        /\ contests' = contests )
     /\ \A s \in Slots :
          ( /\ UpdateWrite(s)
            /\ reqs[s].id \in DOMAIN contests )
          => ( /\ out'.resp = Updated
               /\ contests'[reqs[s].id].title = reqs[s].arg.title
               /\ contests'[reqs[s].id].status = contests[reqs[s].id].status )]_vars

\* C12 witness: the owner's UpdateContestFields on a confirmed contest was
\* answered success and the contest holds the title sent.
C12_UpdatedWhileConfirmed ==
  /\ out.op = "UpdateContestFields" /\ out.resp = Updated
  /\ out.id \in DOMAIN contests
  /\ contests[out.id].status = "confirmed"
  /\ contests[out.id].creatorEmail = out.email
  /\ contests[out.id].title \in {b.title : b \in EditBodies}

\* C13: the write of an EditContest is applied only to a contest whose stored
\* status at the moment of the write is "pending".
C13_EditOnlyWhilePending ==
  [][\A s \in Slots :
       ( /\ EditWrite(s)
         /\ reqs[s].id \in DOMAIN contests )
       => contests[reqs[s].id].status = "pending"]_vars

\* C14: a DeleteContest removes a contest only when, at the moment of the
\* removal, the caller is an admin or a creator who owns the contest while
\* its status is "pending".
C14_DeleteOnlyWhenAllowed ==
  [][\A s \in Slots :
       ( /\ DeleteWrite(s)
         /\ reqs[s].id \in DOMAIN contests )
       => MayDelete(reqs[s].user, contests[reqs[s].id])]_vars

\* C15: in every reachable state no two user documents have emails that are
\* equal ignoring case.
C15_EmailsUnique ==
  \A i, j \in DOMAIN users :
    i # j => toLowerCase(users[i].email) # toLowerCase(users[j].email)

\* C17: a FederatedLogin for an email that has an account issues a
\* credential with the role stored for that account when the login reads it,
\* and no step of the login changes a stored role.
C17_FederatedLoginKeepsRole ==
  [][/\ \A s \in Slots, e \in {"u1", "A@x.com"}, p \in {"", "p"} :
          ( /\ findUser(toLowerCase(e)) # <<>>
            /\ GoogleFind(s, e, p) )
          => /\ users' = users
             /\ IF p # "" /\ Account(toLowerCase(e)).photoURL = ""
                  THEN reqs'[s].snap = findUser(toLowerCase(e))
                  ELSE out' = [op |-> "GoogleLogin", email |-> toLowerCase(e),
                               id |-> 0,
                               resp |-> Resp(200, Account(toLowerCase(e)).role)]
     /\ \A s \in Slots :
          GooglePhoto(s)
          => /\ out'.resp = Resp(200, reqs[s].snap[1].role)
             /\ \A i \in DOMAIN users : users'[i].role = users[i].role]_vars

\* C17 witness: u1 registered with the role "user"; after a SetRole a
\* FederatedLogin of u1 was answered with the new role, which is still the
\* stored one.
C17_LoginAfterSetRole ==
  /\ out.op = "GoogleLogin" /\ out.email = "u1"
  /\ out.resp.message \in {"creator", "admin"}
  /\ Account("u1").role = out.resp.message

\* C18: a step changes the stored role of a user only when it is a SetRole
\* whose caller's credential has the role "admin"; Login, FederatedLogin,
\* UpdateProfile and BuyPackage steps leave every stored role unchanged.
C18_RoleChangesOnlyBySetRole ==
  [][(\E i \in DOMAIN users : users'[i].role # users[i].role)
       => \E s \in Slots, tok \in RoleCallers, id \in DOMAIN users, r \in Roles :
            /\ tok.role = "admin"
            /\ SetRole(s, tok, id, r)]_vars

\* C18 witness: an UpdateProfile whose body names the role "admin" was
\* answered success, the photo it sent is stored and the caller's role is not
\* "admin".
C18_ProfileUpdatedRoleKept ==
  /\ out.op = "UpdateProfile" /\ out.resp = ProfileSent
  /\ Account(out.email).photoURL = "q"
  /\ Account(out.email).role # "admin"

\* C16: the insert of a CreateContest, whatever the body supplies, stores
\* under the returned id a document with status "pending", no participants,
\* no submissions and the caller as creatorEmail, and a GetContest with that
\* id that follows the successful CreateContest sends this document.
C16_CreateThenGet ==
  [][/\ \A s \in Slots :
          CreateInsert(s)
          => /\ out'.resp = Created
             /\ out'.id \in DOMAIN contests'
             /\ contests'[out'.id].status = "pending"
             /\ contests'[out'.id].participants = <<>>
             /\ contests'[out'.id].submissions = <<>>
             /\ contests'[out'.id].creatorEmail = reqs[s].user.email
     /\ \A s \in Slots, tok \in Readers :
          ( /\ out.op = "CreateContest" /\ out.resp = Created
            /\ tok # NoToken
            /\ GetContest(s, tok, out.id) )
          => /\ out'.resp = ContestSent
             /\ findOne(out.id).status = "pending"
             /\ findOne(out.id).participants = <<>>
             /\ findOne(out.id).submissions = <<>>
             /\ findOne(out.id).creatorEmail = out.email]_vars

\* C16 witness: a GetContest was answered with a contest that was created
\* from the body {title: "t2", status: "confirmed"} and is pending.
C16_Fetched ==
  /\ out.op = "GetContest" /\ out.resp = ContestSent
  /\ findOne(out.id) = [title |-> "t2", creatorEmail |-> "c1", status |-> "pending",
                        participants |-> <<>>, submissions |-> <<>>]

\* C19: a contest document is created, modified or deleted only by a request
\* that carries a credential, and on the routes with a required role only
\* when the credential has that role: "creator" for create, edit,
\* update-fields and declare-winner, "admin" for SetStatus.
C19_WritesAreGated ==
  [][/\ \A s \in Slots :
          ( /\ \/ CreateInsert(s) \/ EditWrite(s) \/ UpdateWrite(s)
               \/ UpdateWritePart001(s) \/ DeclareWrite(s)
            /\ contests' # contests )
          => reqs[s].user.role = "creator"
     /\ \A s \in Slots :
          ( /\ \/ RegisterWrite(s) \/ SubmitPush(s) \/ DeleteWrite(s)
            /\ contests' # contests )
          => reqs[s].user # NoToken
     /\ \A s \in Slots, tok \in Tokens, id \in DOMAIN contests, st \in StatusValues :
          ( /\ SetStatus(s, tok, id, st)
            /\ contests' # contests )
          => tok.role = "admin"
     /\ \A s \in Slots, tok \in FirstCallers, b \in Bodies :
          AddContest(s, tok, b) => tok.role = "creator"]_vars

\* C20: the write of an UpdateContestFields changes or adds only fields of
\* the allow-list that are present in the body, and an UpdateContestFields
\* by a creator who does not own the contest is answered "Not authorized" and
\* changes nothing.
C20_OnlyAllowListed ==
  [][/\ \A s \in Slots :
          ( /\ UpdateWrite(s) \/ UpdateWritePart001(s)
            /\ reqs[s].id \in DOMAIN contests )
          => \A f \in DOMAIN contests'[reqs[s].id] :
               ( \/ f \notin DOMAIN contests[reqs[s].id]
                 \/ contests'[reqs[s].id][f] # contests[reqs[s].id][f] )
               => f \in allowedFields \cap DOMAIN reqs[s].arg
     /\ \A s \in Slots, tok \in CreatorTokens, id \in DOMAIN contests,
           b \in Part001Bodies \cup EditBodies :
          ( /\ contests[id].creatorEmail # tok.email
            /\ UpdateRead(s, tok, id, b) )
          => ( /\ out'.resp = NotAuthorized
               /\ reqs' = reqs
               /\ contests' = contests )]_vars

\* C21: a BuyPackage with the package id starter, pro or ultimate is answered
\* success, sets the caller's contestLimit to 2, 10 or 100 and the caller's
\* currentPackage to the id, and changes no other user; with any other id it
\* is answered "Invalid package" and changes no user.
C21_BuyPackageSetsTier ==
  [][\A s \in Slots, tok \in CreatorTokens, p \in PackageIds :
       BuyPackage(s, tok, p)
       => IF p \in {"starter", "pro", "ultimate"}
            THEN /\ out'.resp = Purchased
                 /\ \A i \in DOMAIN users :
                      IF users[i].email = tok.email
                        THEN /\ users'[i].contestLimit =
                                  (IF p = "starter" THEN 2
                                   ELSE IF p = "pro" THEN 10 ELSE 100)
                             /\ users'[i].currentPackage = p
                             /\ users'[i].role = users[i].role
                        ELSE users'[i] = users[i]
            ELSE /\ out'.resp = InvalidPackage
                 /\ users' = users]_vars

\* C21 witness: a purchase of "ultimate" was answered success and the caller
\* has the quota 100 and the tier "ultimate".
C21_Upgraded ==
  /\ out.op = "BuyPackage" /\ out.resp = Purchased
  /\ Account(out.email).contestLimit = 100
  /\ Account(out.email).currentPackage = "ultimate"

\* the winner-flagged submissions of an email across all contests
WinnerSubmissions(email) ==
  {p \in UNION {{<<id, i>> : i \in Winners(contests[id].submissions)} :
                  id \in DOMAIN contests} :
     contests[p[1]].submissions[p[2]].userEmail = email}

\* C22: every leaderboard sent holds, for each user document whose email has
\* a winner-flagged submission, a row with that email and with as many
\* points as the email has winner-flagged submissions across all contests;
\* every row has such points, at least one, and the points of the rows do
\* not increase.
C22_LeaderboardCountsWins ==
  out.op = "Leaderboard"
  => LET rows == out.resp.message IN
       /\ \A i \in DOMAIN users :
            WinnerSubmissions(users[i].email) # {}
            => \E k \in DOMAIN rows :
                 /\ rows[k].email = users[i].email
                 /\ rows[k].points = Cardinality(WinnerSubmissions(users[i].email))
       /\ \A k \in DOMAIN rows :
            /\ rows[k].points = Cardinality(WinnerSubmissions(rows[k].email))
            /\ rows[k].points >= 1
       /\ \A k, l \in DOMAIN rows : k < l => rows[k].points >= rows[l].points

\* C22 witness: u1 has two winner-flagged submissions and u2 one; the
\* leaderboard sent lists u1 with 2 points before u2 with 1 point.
C22_TwoBeforeOne ==
  /\ out.op = "Leaderboard"
  /\ Len(users) = 2
  /\ Cardinality(WinnerSubmissions("u1")) = 2
  /\ Cardinality(WinnerSubmissions("u2")) = 1
  /\ Len(out.resp.message) = 2
  /\ out.resp.message[1].email = "u1" /\ out.resp.message[1].points = 2
  /\ out.resp.message[2].email = "u2" /\ out.resp.message[2].points = 1

\* C29: in every store state, for every user with at least one
\* winner-flagged submission, the points of the aggregation leaderboard (one
\* per winner-flagged submission) equal the points of the per-user scan
\* leaderboard (one per contest with a winner-flagged submission of the user).
C29_SamePoints ==
  \A i \in DOMAIN users :
    WinnerSubmissions(users[i].email) # {}
    => \A g \in Grouped(contests) :
         g.email = users[i].email => g.points = ScanPoints(users[i])

\* C23: ListSubmissions answers 200 exactly when the caller is a creator
\* whose email equals the stored creatorEmail of the contest, and then sends
\* that contest's submissions; every other creator asking for an existing
\* contest gets 403 "Not authorized"; no refusal carries submission data
\* (its message is one of the fixed refusal texts) and nothing is written.
C23_OnlyOwnerReadsSubmissions ==
  [][\A s \in Slots, tok \in Listers, id \in ContestIds :
       ListSubmissions(s, tok, id)
       => LET owner == /\ tok.role = "creator"
                       /\ id \in DOMAIN contests
                       /\ contests[id].creatorEmail = tok.email
          IN /\ (out'.resp.status = 200) <=> owner
             /\ owner => out'.resp.message = SubmissionsSent(contests[id].submissions)
             /\ (tok.role = "creator" /\ id \in DOMAIN contests /\ ~owner)
                  => out'.resp.status = 403 /\ out'.resp = NotAuthorized
             /\ ~owner => out'.resp \in {Unauthorized, CreatorOnly, NotFound, NotAuthorized}
             /\ contests' = contests /\ users' = users]_vars

\* C23 witness: the creator c2, who does not own contest 1, asked for its
\* submissions while it had one and was refused with 403 "Not authorized".
C23_OtherCreatorRefused ==
  /\ out.op = "ListSubmissions"
  /\ out.email = "c2" /\ out.id = 1
  /\ 1 \in DOMAIN contests
  /\ contests[1].creatorEmail = "c1"
  /\ Len(contests[1].submissions) >= 1
  /\ out.resp = NotAuthorized

\* C24: client.connect() is started at most once, whatever the number of
\* requests and however they overlap with the first connection.
C24_ConnectStartedOnce == db.connects <= 1

\* C25: the status of a contest changes only in a step that is a SetStatus
\* request of an admin for that contest; no other request changes it.
C25_StatusOnlyByAdmin ==
  [][\A id \in DOMAIN contests \cap DOMAIN contests' :
       contests'[id].status # contests[id].status
       => \E s \in Slots, tok \in Moderators, st \in StatusValues :
            tok.role = "admin" /\ SetStatus(s, tok, id, st)]_vars

\* C26: the creatorEmail of a contest is the same after every step as
\* before it, for as long as the contest is in the store.
C26_OwnerNeverChanges ==
  [][\A id \in DOMAIN contests \cap DOMAIN contests' :
       contests'[id].creatorEmail = contests[id].creatorEmail]_vars

\* C27: every step keeps the submissions a contest already has, at their
\* positions (a step may flag them as winner and may append new ones): a
\* submission accepted by SubmitTask is not lost while the contest exists.
C27_SubmissionsKept ==
  [][\A id \in DOMAIN contests \cap DOMAIN contests' :
       /\ Len(contests'[id].submissions) >= Len(contests[id].submissions)
       /\ \A i \in 1..Len(contests[id].submissions) :
            /\ contests'[id].submissions[i].userEmail = contests[id].submissions[i].userEmail
            /\ contests'[id].submissions[i].submission = contests[id].submissions[i].submission]_vars

\* the role the Identity Store holds for the caller of a request
StoredRoleIs(tok, role) ==
  \E i \in DOMAIN users : users[i].email = tok.email /\ users[i].role = role

\* C28: a request to a role-gated route gets past the gate only when the
\* role stored for the caller at the time of the request is the required
\* one: a SetRole or SetStatus that is carried out had a caller stored as
\* admin, a ListSubmissions that sends submissions and a CreateContest that
\* goes on to its quota check had a caller stored as creator.
C28_GateReadsStoredRole ==
  [][\A s \in Slots, tok \in IssuedTokens :
       /\ \A id \in DOMAIN users, r \in Roles :
            (SetRole(s, tok, id, r) /\ out'.resp = RoleUpdated)
            => StoredRoleIs(tok, "admin")
       /\ \A id \in ContestIds, st \in StatusValues :
            (SetStatus(s, tok, id, st) /\ out'.resp = StatusResult)
            => StoredRoleIs(tok, "admin")
       /\ \A id \in ContestIds :
            (ListSubmissions(s, tok, id) /\ out'.resp.status = 200)
            => StoredRoleIs(tok, "creator")
       /\ \A b \in CreateBodies :
            (CreateFindUser(s, tok, b) /\ reqs'[s].pc = "count")
            => StoredRoleIs(tok, "creator")]_vars

====
